---- MODULE Spec2Model ----
(***************************************************************************)
(* memfs: an in-memory flat file system (src/src/lib.rs, src/src/file.rs). *)
(* FileSystem.files is an RwLock around a HashMap from path to             *)
(* Arc<RwLock<File>>; File.data is a Vec<u8>.  Each process runs touch,    *)
(* write and read calls; a call is split at every point where another      *)
(* thread can run: each lock acquisition, the critical section on the map, *)
(* and the two statements of File::write that change the vector.           *)
(***************************************************************************)
EXTENDS Integers, Sequences, FiniteSets, TLC

\* ---------------------------------------------------------------- bounds
NumProcs == 2       \* concurrent callers
MaxOps == 3         \* calls invoked in one behaviour
MaxOffset == 2      \* small offsets (besides usize::MAX)
MaxData == 2        \* longest data slice written
MaxLen == 3         \* longest small read length (besides usize::MAX)
UsizeBits == 4      \* width of usize in the model

UsizeModulus == 2 ^ UsizeBits
UsizeMax == UsizeModulus - 1

Procs == 1..NumProcs
Paths == {"", "a", "b"}
Offsets == (0..MaxOffset) \cup {UsizeMax}
Lens == (0..MaxLen) \cup {UsizeMax}
\* the data slices written: byte i of a slice has the value i, so that every
\* byte of a slice differs from its neighbours and from the zero fill
Datas == {[i \in 1..n |-> i] : n \in 0..MaxData}

NoFile == 0         \* Option::None for a map lookup; file handles are 1..Len(heap)
NoProc == 0
None == -1          \* Option::None of checked_add

VARIABLES
    files,          \* FileSystem.files: path -> handle of its Arc<RwLock<File>>, or NoFile
    heap,           \* the File objects ever allocated: handle -> File.data
    mapReaders,     \* processes holding files.read()
    mapWriter,      \* process holding files.write(), or NoProc
    fileReaders,    \* handle -> processes holding that file's read()
    fileWriter,     \* handle -> process holding that file's write(), or NoProc
    pc,             \* where each process is in its call
    call,           \* the call a process is running or has finished
    handle,         \* file_rwlock: the Arc the process cloned out of the map
    result,         \* the value the call returned
    before,         \* history: File.data when the process got the file lock
    created,        \* history: the call inserted the map entry
    lastWriter,     \* history: handle -> process whose copy_from_slice ran last
    highWater,      \* history: handle -> largest end of the non-empty writes that returned
    nops            \* calls invoked so far

vars == <<files, heap, mapReaders, mapWriter, fileReaders, fileWriter, pc, call,
          handle, result, before, created, lastWriter, highWater, nops>>

\* ------------------------------------------------------- values and results
NoCall == [op |-> "none", path |-> "", offset |-> 0, data |-> <<>>, len |-> 0]
TouchCall(path) == [op |-> "touch", path |-> path, offset |-> 0, data |-> <<>>, len |-> 0]
WriteCall(path, offset, data) ==
    [op |-> "write", path |-> path, offset |-> offset, data |-> data, len |-> 0]
ReadCall(path, offset, len) ==
    [op |-> "read", path |-> path, offset |-> offset, data |-> <<>>, len |-> len]

NoResult == [kind |-> "none", bytes |-> <<>>]
Ok(bytes) == [kind |-> "Ok", bytes |-> bytes]
Err(kind) == [kind |-> kind, bytes |-> <<>>]
Proceed == [kind |-> "proceed", bytes |-> <<>>]

Min(a, b) == IF a < b THEN a ELSE b
Max(a, b) == IF a > b THEN a ELSE b
Zeros(n) == [i \in 1..n |-> 0]

\* mutant: wrapping_add, which never reports an overflow
CheckedAddWrapping(a, b) == (a + b) % UsizeModulus

\* usize::checked_add
CheckedAdd(a, b) == IF a + b > UsizeMax THEN None ELSE a + b

\* ------------------------------------------------------------- File (file.rs)
FileNew == <<>>

\* mutant: the early return on empty data is missing
WriteIsNoopNever(data) == FALSE

\* File::write, `if data.is_empty() { return; }`
WriteIsNoop(data) == data = <<>>

\* File::write, `let end_pos = offset + data.len();`
WriteEndPos(offset, data) == (offset + Len(data)) % UsizeModulus

\* mutant: resize without the length test, so a write inside the file truncates
WriteResizeAlways(d, end_pos) ==
    IF end_pos > Len(d) THEN d \o Zeros(end_pos - Len(d)) ELSE SubSeq(d, 1, end_pos)

\* File::write, `if end_pos > self.data.len() { self.data.resize(end_pos, 0); }`
WriteResize(d, end_pos) ==
    IF end_pos > Len(d) THEN d \o Zeros(end_pos - Len(d)) ELSE d

\* File::write, `self.data[offset..end_pos].copy_from_slice(data);`
CopyFromSlice(d, offset, end_pos, data) ==
    [i \in 1..Len(d) |-> IF offset < i /\ i <= end_pos THEN data[i - offset] ELSE d[i]]

\* File::write as a whole
FileWrite(d, offset, data) ==
    IF WriteIsNoop(data) THEN d
    ELSE CopyFromSlice(WriteResize(d, WriteEndPos(offset, data)),
                       offset, WriteEndPos(offset, data), data)

\* mutant: the end of the slice is min(len, length), the offset is not added
FileReadEndWithoutOffset(d, offset, len) ==
    IF offset >= Len(d) THEN <<>>
    ELSE SubSeq(d, offset + 1, Min(len, Len(d)))

\* File::read
FileRead(d, offset, len) ==
    IF offset >= Len(d) THEN <<>>
    ELSE SubSeq(d, offset + 1, Min((offset + len) % UsizeModulus, Len(d)))

\* ------------------------------------------------- FileSystem (lib.rs) checks
\* touch: the statements before the first await
ValidateTouch(c) ==
    IF c.path = "" THEN Err("InvalidPath") ELSE Proceed

\* mutant: the overflow check runs before the path check
ValidateWriteOverflowFirst(c) ==
    IF CheckedAdd(c.offset, Len(c.data)) = None THEN Err("WriteError")
    ELSE IF c.path = "" THEN Err("InvalidPath")
    ELSE Proceed

\* write: the statements before the first await
ValidateWrite(c) ==
    IF c.path = "" THEN Err("InvalidPath")
    ELSE IF CheckedAdd(c.offset, Len(c.data)) = None THEN Err("WriteError")
    ELSE Proceed

\* mutant: the `len == 0` shortcut is missing
ValidateReadNoZeroLen(c) ==
    IF c.path = "" THEN Err("InvalidPath")
    ELSE IF CheckedAdd(c.offset, c.len) = None THEN Err("ReadError")
    ELSE Proceed

\* read: the statements before the first await
ValidateRead(c) ==
    IF c.path = "" THEN Err("InvalidPath")
    ELSE IF c.len = 0 THEN Ok(<<>>)
    ELSE IF CheckedAdd(c.offset, c.len) = None THEN Err("ReadError")
    ELSE Proceed

Validate(c) ==
    CASE c.op = "touch" -> ValidateTouch(c)
      [] c.op = "write" -> ValidateWrite(c)
      [] c.op = "read" -> ValidateRead(c)

\* mutant: touch awaits files.read() as read does
FirstPcTouchShared(c) ==
    CASE c.op = "touch" -> "r_maplock"
      [] c.op = "write" -> "w_maplock"
      [] c.op = "read" -> "r_maplock"

FirstPc(c) ==
    CASE c.op = "touch" -> "t_maplock"
      [] c.op = "write" -> "w_maplock"
      [] c.op = "read" -> "r_maplock"

Calls ==
    {TouchCall(path) : path \in Paths}
    \cup {WriteCall(path, offset, data) : path \in Paths, offset \in Offsets, data \in Datas}
    \cup {ReadCall(path, offset, len) : path \in Paths, offset \in Offsets, len \in Lens}

\* ------------------------------------------------------------------ locks
\* tokio::sync::RwLock: write() is granted when nobody holds the lock,
\* read() when no writer holds it.  The lock also queues its waiters in
\* arrival order; the order of grants is left open here, which allows every
\* order the queue can produce.
CanLockMapWrite == mapWriter = NoProc /\ mapReaders = {}
CanLockMapRead == mapWriter = NoProc
\* mutant: write() is granted while readers hold the lock
CanLockFileWriteDespiteReaders(h) == fileWriter[h] = NoProc

CanLockFileWrite(h) == fileWriter[h] = NoProc /\ fileReaders[h] = {}
CanLockFileRead(h) == fileWriter[h] = NoProc

\* ------------------------------------------------------------------- Init
Init ==
    /\ files = [path \in Paths |-> NoFile]
    /\ heap = <<>>
    /\ mapReaders = {}
    /\ mapWriter = NoProc
    /\ fileReaders = <<>>
    /\ fileWriter = <<>>
    /\ pc = [p \in Procs |-> "idle"]
    /\ call = [p \in Procs |-> NoCall]
    /\ handle = [p \in Procs |-> NoFile]
    /\ result = [p \in Procs |-> NoResult]
    /\ before = [p \in Procs |-> <<>>]
    /\ created = [p \in Procs |-> FALSE]
    /\ lastWriter = <<>>
    /\ highWater = <<>>
    /\ nops = 0

\* ---------------------------------------------------------------- actions
\* A caller starts a call: everything up to the first await.
Invoke(p) ==
    /\ pc[p] = "idle"
    /\ nops < MaxOps
    /\ \E c \in Calls :
        /\ call' = [call EXCEPT ![p] = c]
        /\ IF Validate(c) = Proceed
           THEN /\ pc' = [pc EXCEPT ![p] = FirstPc(c)]
                /\ result' = [result EXCEPT ![p] = NoResult]
           ELSE /\ pc' = [pc EXCEPT ![p] = "done"]
                /\ result' = [result EXCEPT ![p] = Validate(c)]
    /\ nops' = nops + 1
    /\ UNCHANGED <<files, heap, mapReaders, mapWriter, fileReaders, fileWriter,
                   handle, before, created, lastWriter, highWater>>

\* The caller takes the returned value; the process can start another call.
Return(p) ==
    /\ pc[p] = "done"
    /\ pc' = [pc EXCEPT ![p] = "idle"]
    /\ call' = [call EXCEPT ![p] = NoCall]
    /\ result' = [result EXCEPT ![p] = NoResult]
    /\ handle' = [handle EXCEPT ![p] = NoFile]
    /\ before' = [before EXCEPT ![p] = <<>>]
    /\ created' = [created EXCEPT ![p] = FALSE]
    /\ UNCHANGED <<files, heap, mapReaders, mapWriter, fileReaders, fileWriter,
                   lastWriter, highWater, nops>>

\* touch / write: `self.files.write().await`
LockMapWrite(p) ==
    /\ pc[p] \in {"t_maplock", "w_maplock"}
    /\ CanLockMapWrite
    /\ mapWriter' = p
    /\ pc' = [pc EXCEPT ![p] = IF pc[p] = "t_maplock" THEN "t_entry" ELSE "w_entry"]
    /\ UNCHANGED <<files, heap, mapReaders, fileReaders, fileWriter, call, handle,
                   result, before, created, lastWriter, highWater, nops>>

\* mutant: the entry is looked up under one key for every path, so all the
\* paths share one File
EntrySharedByAllPaths(path) == 1

\* mutant: `files.insert(path, Arc::new(..))`, which replaces an existing entry
EntryAlwaysInsert(path) == Len(heap) + 1

\* `files.entry(path).or_insert_with(|| Arc::new(RwLock::new(File::new())))`:
\* the handle bound to the path afterwards.
EntryOrInsert(path) ==
    IF files[path] = NoFile THEN Len(heap) + 1 ELSE files[path]

\* mutant: the guard `files` outlives the block, the caller keeps the map lock
MapGuardKept(p) == p

\* The holder of files.write() once the guard `files` has gone out of scope,
\* at the end of the block in write and at the return of touch.
MapGuardDropped(p) == NoProc

\* The map critical section of touch and write, up to the drop of the guard.
MapInsert(p) ==
    LET h == EntryOrInsert(call[p].path) IN
    /\ files' = [files EXCEPT ![call[p].path] = h]
    /\ IF h > Len(heap)
       THEN /\ heap' = Append(heap, FileNew)
            /\ fileReaders' = Append(fileReaders, {})
            /\ fileWriter' = Append(fileWriter, NoProc)
            /\ lastWriter' = Append(lastWriter, NoProc)
            /\ highWater' = Append(highWater, 0)
       ELSE UNCHANGED <<heap, fileReaders, fileWriter, lastWriter, highWater>>
    /\ created' = [created EXCEPT ![p] = h > Len(heap)]
    /\ mapWriter' = MapGuardDropped(p)

\* touch: insert, drop the guard, return Ok(())
TouchEntry(p) ==
    /\ pc[p] = "t_entry"
    /\ MapInsert(p)
    /\ pc' = [pc EXCEPT ![p] = "done"]
    /\ result' = [result EXCEPT ![p] = Ok(<<>>)]
    /\ UNCHANGED <<mapReaders, call, handle, before, nops>>

\* write: insert, clone the Arc, drop the guard
WriteEntry(p) ==
    /\ pc[p] = "w_entry"
    /\ MapInsert(p)
    /\ handle' = [handle EXCEPT ![p] = EntryOrInsert(call[p].path)]
    /\ pc' = [pc EXCEPT ![p] = "w_filelock"]
    /\ UNCHANGED <<mapReaders, call, result, before, nops>>

\* write: `file_rwlock.write().await`
LockFileWrite(p) ==
    /\ pc[p] = "w_filelock"
    /\ CanLockFileWrite(handle[p])
    /\ fileWriter' = [fileWriter EXCEPT ![handle[p]] = p]
    /\ before' = [before EXCEPT ![p] = heap[handle[p]]]
    /\ pc' = [pc EXCEPT ![p] = "w_resize"]
    /\ UNCHANGED <<files, heap, mapReaders, mapWriter, fileReaders, call, handle,
                   result, created, lastWriter, highWater, nops>>

\* write: the guard is dropped and Ok(()) returned
WriteDone(p) ==
    /\ fileWriter' = [fileWriter EXCEPT ![handle[p]] = NoProc]
    /\ pc' = [pc EXCEPT ![p] = "done"]
    /\ result' = [result EXCEPT ![p] = Ok(<<>>)]

\* write: File::write up to the resize; with empty data it returns at once.
WriteResizeStep(p) ==
    /\ pc[p] = "w_resize"
    /\ IF WriteIsNoop(call[p].data)
       THEN /\ WriteDone(p)
            /\ UNCHANGED heap
       ELSE /\ heap' = [heap EXCEPT ![handle[p]] =
                          WriteResize(@, WriteEndPos(call[p].offset, call[p].data))]
            /\ pc' = [pc EXCEPT ![p] = "w_copy"]
            /\ UNCHANGED <<fileWriter, result>>
    /\ UNCHANGED <<files, mapReaders, mapWriter, fileReaders, call, handle, before,
                   created, lastWriter, highWater, nops>>

\* write: copy_from_slice, then the return of File::write and of write
WriteCopyStep(p) ==
    /\ pc[p] = "w_copy"
    /\ heap' = [heap EXCEPT ![handle[p]] =
                  CopyFromSlice(@, call[p].offset,
                                WriteEndPos(call[p].offset, call[p].data), call[p].data)]
    /\ lastWriter' = [lastWriter EXCEPT ![handle[p]] = p]
    /\ highWater' = [highWater EXCEPT ![handle[p]] =
                       Max(@, WriteEndPos(call[p].offset, call[p].data))]
    /\ WriteDone(p)
    /\ UNCHANGED <<files, mapReaders, mapWriter, fileReaders, call, handle, before,
                   created, nops>>

\* read: `self.files.read().await`
LockMapRead(p) ==
    /\ pc[p] = "r_maplock"
    /\ CanLockMapRead
    /\ mapReaders' = mapReaders \cup {p}
    /\ pc' = [pc EXCEPT ![p] = "r_get"]
    /\ UNCHANGED <<files, heap, mapWriter, fileReaders, fileWriter, call, handle,
                   result, before, created, lastWriter, highWater, nops>>

\* read: `files.get(path).cloned()`
MapGet(path) == files[path]

\* mutant: a missing file reads as empty
ReadMissingAsEmpty == Ok(<<>>)

\* read: `None => Err(FileSystemError::FileNotFound(path.to_string()))`
ReadMissing == Err("FileNotFound")

\* read: look the path up, drop the guard; None returns FileNotFound
ReadGet(p) ==
    /\ pc[p] = "r_get"
    /\ mapReaders' = mapReaders \ {p}
    /\ handle' = [handle EXCEPT ![p] = MapGet(call[p].path)]
    /\ IF MapGet(call[p].path) = NoFile
       THEN /\ pc' = [pc EXCEPT ![p] = "done"]
            /\ result' = [result EXCEPT ![p] = ReadMissing]
       ELSE /\ pc' = [pc EXCEPT ![p] = "r_filelock"]
            /\ UNCHANGED result
    /\ UNCHANGED <<files, heap, mapWriter, fileReaders, fileWriter, call, before,
                   created, lastWriter, highWater, nops>>

\* read: `file_rwlock.read().await`
LockFileRead(p) ==
    /\ pc[p] = "r_filelock"
    /\ CanLockFileRead(handle[p])
    /\ fileReaders' = [fileReaders EXCEPT ![handle[p]] = @ \cup {p}]
    /\ before' = [before EXCEPT ![p] = heap[handle[p]]]
    /\ pc' = [pc EXCEPT ![p] = "r_read"]
    /\ UNCHANGED <<files, heap, mapReaders, mapWriter, fileWriter, call, handle,
                   result, created, lastWriter, highWater, nops>>

\* read: File::read, drop the guard, return Ok(bytes)
ReadStep(p) ==
    /\ pc[p] = "r_read"
    /\ result' = [result EXCEPT ![p] =
                    Ok(FileRead(heap[handle[p]], call[p].offset, call[p].len))]
    /\ fileReaders' = [fileReaders EXCEPT ![handle[p]] = @ \ {p}]
    /\ pc' = [pc EXCEPT ![p] = "done"]
    /\ UNCHANGED <<files, heap, mapReaders, mapWriter, fileWriter, call, handle,
                   before, created, lastWriter, highWater, nops>>

Next ==
    \E p \in Procs :
        \/ Invoke(p)
        \/ Return(p)
        \/ LockMapWrite(p)
        \/ TouchEntry(p)
        \/ WriteEntry(p)
        \/ LockFileWrite(p)
        \/ WriteResizeStep(p)
        \/ WriteCopyStep(p)
        \/ LockMapRead(p)
        \/ ReadGet(p)
        \/ LockFileRead(p)
        \/ ReadStep(p)

Spec == Init /\ [][Next]_vars

TypeOK ==
    /\ \A path \in Paths : files[path] \in 0..Len(heap)
    /\ \A p \in Procs : handle[p] \in 0..Len(heap)
    /\ mapWriter \in Procs \cup {NoProc}
    /\ mapReaders \subseteq Procs
\* ------------------------------------------------------------ step predicates
InvokeStep(p) == pc[p] = "idle" /\ pc'[p] # "idle"
ReadGetStep(p) == pc[p] = "r_get" /\ pc'[p] # "r_get"
ReadReturnStep(p) == pc[p] = "r_read" /\ pc'[p] = "done"
EmptyWriteReturnStep(p) == pc[p] = "w_resize" /\ pc'[p] = "done"
WriteCopyReturnStep(p) == pc[p] = "w_copy" /\ pc'[p] = "done"

Finished(p, op, kind) ==
    pc[p] = "done" /\ call[p].op = op /\ result[p].kind = kind

\* a write call that passed validation and has not returned
WriteInFlight(q) ==
    call[q].op = "write" /\ pc[q] \in {"w_maplock", "w_entry", "w_filelock", "w_resize", "w_copy"}

\* ----------------------------------------------------------------------- C1
\* What read(path, offset, len) returns when it runs alone on a store in which
\* the path has no entry (exists = FALSE) or has the buffer d.
ReadAlone(exists, d, offset, len) ==
    IF exists THEN Ok(FileRead(d, offset, len)) ELSE Err("FileNotFound")

\* The buffer a write in flight is applied to: the one it locked, or the
\* current one while it has not locked it yet.
WriteBase(q) ==
    IF pc[q] \in {"w_resize", "w_copy"} THEN before[q] ELSE heap[handle[q]]

\* C1: atomicity of a write for the readers of its path.  Whenever a read
\* returns while a write on the same path is in flight and has had an effect
\* (it has run its map critical section), the value returned is the one the
\* read returns on the store entirely before that write (no entry when the
\* write is the one that created it) or entirely after it.
C1_ReadSeesWriteWhollyOrNotAtAll ==
    [][\A p \in Procs : \A q \in Procs \ {p} :
          ( /\ call[p].op = "read"
            /\ ReadGetStep(p) \/ ReadReturnStep(p)
            /\ pc'[p] = "done"
            /\ WriteInFlight(q)
            /\ call[q].path = call[p].path
            /\ pc[q] \in {"w_filelock", "w_resize", "w_copy"} )
          => result'[p] \in
                { ReadAlone(~created[q], WriteBase(q), call[p].offset, call[p].len),
                  ReadAlone(TRUE, FileWrite(WriteBase(q), call[q].offset, call[q].data),
                            call[p].offset, call[p].len) }]_vars

\* ----------------------------------------------------------------------- C2
\* C2: a write of non-empty data to a buffer of length L leaves a buffer of
\* length max(L, offset + len(data)) that holds data at [offset, offset+len),
\* zeros in the gap [L, offset) and the previous bytes everywhere else.
WritePost(b, a, offset, data) ==
    LET L == Len(b)
        end == offset + Len(data) IN
    /\ Len(a) = Max(L, end)
    /\ \A i \in 1..Len(a) :
          /\ (offset < i /\ i <= end) => a[i] = data[i - offset]
          /\ (L < i /\ i <= offset) => a[i] = 0
          /\ (i <= L /\ ~(offset < i /\ i <= end)) => a[i] = b[i]

C2_WriteEffect ==
    [][\A p \in Procs :
          WriteCopyReturnStep(p)
          => /\ result'[p] = Ok(<<>>)
             /\ handle[p] = files[call[p].path]
             /\ WritePost(before[p], heap'[handle[p]], call[p].offset, call[p].data)]_vars

\* a finished write that left a gap behind the old content
C2_Witness ==
    \E p \in Procs :
        /\ Finished(p, "write", "Ok")
        /\ call[p].data # <<>>
        /\ before[p] # <<>>
        /\ call[p].offset > Len(before[p])
        /\ heap[handle[p]][call[p].offset] = 0

\* ----------------------------------------------------------------------- C3
\* C3: a read with len > 0 of an existing path returns Ok with exactly the
\* bytes [offset, min(offset+len, L)) of the buffer: empty when offset >= L,
\* never padded, never longer than len, never an error.
ReadPost(d, r, offset, len) ==
    LET L == Len(d) IN
    /\ r.kind = "Ok"
    /\ Len(r.bytes) = (IF offset >= L THEN 0 ELSE Min(offset + len, L) - offset)
    /\ Len(r.bytes) <= len
    /\ \A i \in 1..Len(r.bytes) : r.bytes[i] = d[offset + i]

C3_ReadSlice ==
    [][\A p \in Procs :
          /\ (ReadGetStep(p) /\ files[call[p].path] # NoFile)
                => /\ pc'[p] = "r_filelock"
                   /\ handle'[p] = files[call[p].path]
          /\ ReadReturnStep(p)
                => ReadPost(heap[handle[p]], result'[p], call[p].offset, call[p].len)]_vars

\* a finished short read from the middle of the buffer
C3_Witness ==
    \E p \in Procs :
        /\ Finished(p, "read", "Ok")
        /\ call[p].offset > 0
        /\ result[p].bytes # <<>>
        /\ Len(result[p].bytes) < call[p].len

\* ----------------------------------------------------------------------- C4
\* C4: a write of empty data at an offset k beyond the end of the file extends
\* the file with zeros up to k: read(path, 0, n) then returns min(n, k) zeros.
C4_EmptyWriteExtends ==
    [][\A p \in Procs :
          (EmptyWriteReturnStep(p) /\ call[p].offset > Len(heap[handle[p]]))
          => \A n \in 1..MaxLen :
                FileRead(heap'[handle[p]], 0, n) = Zeros(Min(n, call[p].offset))]_vars

WroteLast(q) ==
    /\ Finished(q, "write", "Ok")
    /\ call[q].data # <<>>
    /\ lastWriter[handle[q]] = q

C6_LazyCreate ==
    [][\A p \in Procs :
          /\ Finished(p, "write", "Ok")' => files'[call'[p].path] # NoFile
          /\ \A path \in Paths : files[path] # NoFile => files'[path] # NoFile
          /\ (ReadGetStep(p) /\ files[call[p].path] # NoFile)
                => /\ pc'[p] = "r_filelock"
                   /\ result'[p].kind # "FileNotFound"
          /\ ReadReturnStep(p) => result'[p].kind = "Ok"
          /\ \A q \in Procs \ {p} :
                (ReadReturnStep(p) /\ WroteLast(q)
                        /\ call[q].path = call[p].path
                        /\ call[p].offset = call[q].offset
                        /\ call[p].len = Len(call[q].data))
                      => result'[p] = Ok(call[q].data)]_vars

\* a write created its path, and a read of the range it wrote has returned
C6_Witness ==
    \E p \in Procs : \E q \in Procs \ {p} :
        /\ WroteLast(q)
        /\ created[q]
        /\ call[q].offset > 0
        /\ Finished(p, "read", "Ok")
        /\ call[p].path = call[q].path
        /\ call[p].offset = call[q].offset
        /\ call[p].len = Len(call[q].data)
        /\ result[p].bytes = call[q].data

\* ----------------------------------------------------------------------- C7
\* C7: a read that finds no entry for its path returns FileNotFound, and no
\* step of a read changes the mapping or any buffer: read never creates.
C7_ReadMissing ==
    [][\A p \in Procs :
          /\ (ReadGetStep(p) /\ files[call[p].path] = NoFile)
                => /\ result'[p] = Err("FileNotFound")
                   /\ pc'[p] = "done"
          /\ (call[p].op = "read" /\ pc'[p] # pc[p])
                => /\ files' = files
                   /\ heap' = heap]_vars

\* a read returned FileNotFound and the path still has no entry
C7_Witness ==
    \E p \in Procs :
        /\ Finished(p, "read", "FileNotFound")
        /\ call[p].len > 0
        /\ files[call[p].path] = NoFile

\* ----------------------------------------------------------------------- C8
\* C8: with a non-empty path, a write whose offset + len(data) exceeds
\* usize::MAX returns WriteError and a read with len > 0 whose offset + len
\* exceeds it returns ReadError, at once and whether or not the path exists,
\* with the mapping and every buffer unchanged; such a call never runs a
\* later step, so the write creates nothing.
Overflows(c) ==
    /\ c.path # ""
    /\ \/ c.op = "write" /\ c.offset + Len(c.data) > UsizeMax
       \/ c.op = "read" /\ c.len > 0 /\ c.offset + c.len > UsizeMax

OverflowError(c) == IF c.op = "write" THEN Err("WriteError") ELSE Err("ReadError")

C8_OverflowGuards ==
    [][\A p \in Procs :
          /\ Overflows(call'[p])
                => /\ pc'[p] = "done"
                   /\ result'[p] = OverflowError(call'[p])
          /\ (InvokeStep(p) /\ Overflows(call'[p]))
                => /\ files' = files
                   /\ heap' = heap]_vars

\* an overflowing write on a missing path and an overflowing read have failed
C8_Witness ==
    \E p \in Procs : \E q \in Procs :
        /\ Finished(p, "write", "WriteError")
        /\ files[call[p].path] = NoFile
        /\ Finished(q, "read", "ReadError")

\* ----------------------------------------------------------------------- C9
\* C9: touch, write and read with the empty path return InvalidPath whatever
\* their other arguments, change neither the mapping nor any buffer, and the
\* empty string is never a key of the mapping.
C9_EmptyPath ==
    [][\A p \in Procs :
          /\ (call'[p].op # "none" /\ call'[p].path = "")
                => /\ pc'[p] = "done"
                   /\ result'[p] = Err("InvalidPath")
          /\ (InvokeStep(p) /\ call'[p].path = "")
                => /\ files' = files
                   /\ heap' = heap
          /\ files'[""] = NoFile]_vars

\* an overflowing write and a zero-length read with the empty path have failed
C9_Witness ==
    \E p \in Procs : \E q \in Procs :
        /\ Finished(p, "write", "InvalidPath")
        /\ call[p].offset = UsizeMax
        /\ call[p].data # <<>>
        /\ Finished(q, "read", "InvalidPath")
        /\ call[q].len = 0

\* ---------------------------------------------------------------------- C10
\* C10: read(path, offset, 0) with a non-empty path returns Ok with the empty
\* sequence for every offset, whether or not the path has an entry, and
\* changes nothing.
C10_ZeroLengthRead ==
    [][\A p \in Procs :
          /\ (call'[p].op = "read" /\ call'[p].path # "" /\ call'[p].len = 0)
                => /\ pc'[p] = "done"
                   /\ result'[p] = Ok(<<>>)
          /\ (InvokeStep(p) /\ call'[p].op = "read" /\ call'[p].len = 0)
                => UNCHANGED <<files, heap, mapReaders, mapWriter, fileReaders,
                               fileWriter>>]_vars

\* a zero-length read at usize::MAX of a missing path has returned Ok
C10_Witness ==
    \E p \in Procs :
        /\ Finished(p, "read", "Ok")
        /\ call[p].len = 0
        /\ call[p].offset = UsizeMax
        /\ files[call[p].path] = NoFile
        /\ result[p].bytes = <<>>
\* ---------------------------------------------------------------------- C11
\* C11: touch returns Ok; on a path with no entry it inserts an empty buffer
\* and changes nothing else; on a path that has an entry it changes neither
\* the mapping nor any buffer, so a repeated touch never truncates.
TouchReturnStep(p) == pc[p] = "t_entry" /\ pc'[p] = "done"

C11_TouchIdempotent ==
    [][\A p \in Procs :
          TouchReturnStep(p)
          => /\ result'[p] = Ok(<<>>)
             /\ \A h \in 1..Len(heap) : heap'[h] = heap[h]
             /\ \A path \in Paths \ {call[p].path} : files'[path] = files[path]
             /\ IF files[call[p].path] = NoFile
                THEN /\ files'[call[p].path] = Len(heap) + 1
                     /\ Len(heap') = Len(heap) + 1
                     /\ heap'[files'[call[p].path]] = <<>>
                ELSE /\ files' = files
                     /\ heap' = heap]_vars

\* a touch has returned on a path whose buffer holds data
C11_Witness ==
    \E p \in Procs :
        /\ Finished(p, "touch", "Ok")
        /\ ~created[p]
        /\ files[call[p].path] # NoFile
        /\ heap[files[call[p].path]] # <<>>
\* ---------------------------------------------------------------------- C12
\* The writers of test_concurrent_writes_same_file_different_offsets: every
\* process makes one write of non-empty data to the same path, the byte
\* ranges pairwise disjoint; the path has been touched before, as in the
\* test, or has not.
WritersPath == "a"

InitWriters ==
    \E touched \in BOOLEAN :
        /\ files = [path \in Paths |->
                      IF touched /\ path = WritersPath THEN 1 ELSE NoFile]
        /\ heap = IF touched THEN <<FileNew>> ELSE <<>>
        /\ fileReaders = IF touched THEN <<{}>> ELSE <<>>
        /\ fileWriter = IF touched THEN <<NoProc>> ELSE <<>>
        /\ lastWriter = IF touched THEN <<NoProc>> ELSE <<>>
        /\ highWater = IF touched THEN <<0>> ELSE <<>>
        /\ mapReaders = {}
        /\ mapWriter = NoProc
        /\ pc = [p \in Procs |-> "idle"]
        /\ call = [p \in Procs |-> NoCall]
        /\ handle = [p \in Procs |-> NoFile]
        /\ result = [p \in Procs |-> NoResult]
        /\ before = [p \in Procs |-> <<>>]
        /\ created = [p \in Procs |-> FALSE]
        /\ nops = 0

\* the byte positions (1-based) a write call covers
Range(c) == (c.offset + 1)..(c.offset + Len(c.data))

InvokeWriter(p) ==
    /\ Invoke(p)
    /\ call'[p].op = "write"
    /\ call'[p].path = WritersPath
    /\ call'[p].data # <<>>
    /\ Validate(call'[p]) = Proceed
    /\ \A q \in Procs \ {p} :
          call[q].op = "write" => Range(call[q]) \cap Range(call'[p]) = {}

NextWriters ==
    \E p \in Procs :
        \/ InvokeWriter(p)
        \/ LockMapWrite(p)
        \/ WriteEntry(p)
        \/ LockFileWrite(p)
        \/ WriteResizeStep(p)
        \/ WriteCopyStep(p)

SpecWriters == InitWriters /\ [][NextWriters]_vars

AllWritersDone == \A p \in Procs : Finished(p, "write", "Ok")

\* C12: when all the writers have returned, whatever the interleaving of their
\* steps and whether or not the path existed, the path's buffer is as long as
\* the furthest write, holds each writer's data at its offset and zeros at
\* every position no writer covers: no write is lost.
C12_DisjointWritesCommute ==
    AllWritersDone
    => /\ files[WritersPath] # NoFile
       /\ LET d == heap[files[WritersPath]] IN
          /\ \A p \in Procs : call[p].offset + Len(call[p].data) <= Len(d)
          /\ \E p \in Procs : call[p].offset + Len(call[p].data) = Len(d)
          /\ \A i \in 1..Len(d) :
                /\ \A p \in Procs :
                      i \in Range(call[p]) => d[i] = call[p].data[i - call[p].offset]
                /\ (\A p \in Procs : i \notin Range(call[p])) => d[i] = 0

\* all writers have returned, one of them created the path, a gap is left
C12_Witness ==
    /\ AllWritersDone
    /\ \E p \in Procs : created[p]
    /\ \E i \in 1..Len(heap[files[WritersPath]]) :
          \A p \in Procs : i \notin Range(call[p])
\* ---------------------------------------------------------------------- C13
\* the write of p is the only non-empty write applied to the buffer it
\* created, and no other write to the buffer is under way
OnlyWriter(p) ==
    /\ Finished(p, "write", "Ok")
    /\ fileWriter[handle[p]] = NoProc
    /\ created[p]
    /\ call[p].data # <<>>
    /\ before[p] = <<>>
    /\ lastWriter[handle[p]] = p

\* C13: no step of a write to one path changes the entry or the buffer of
\* another path; and a path created by a write stays bound to the buffer that
\* write filled, which holds exactly what was written to it (zeros up to the
\* offset, then the data), whatever the writers of other paths did meanwhile.
C13_IndependentFiles ==
    [][\A p \in Procs :
          /\ (call[p].op = "write" /\ pc'[p] # pc[p])
                => \A path \in Paths \ {call[p].path} :
                      /\ files'[path] = files[path]
                      /\ files[path] # NoFile => heap'[files[path]] = heap[files[path]]
          /\ Finished(p, "write", "Ok")' => files'[call'[p].path] = handle'[p]
          /\ OnlyWriter(p)'
                => heap'[files'[call'[p].path]]
                     = Zeros(call'[p].offset) \o call'[p].data]_vars

\* two writers have created and filled two distinct paths
C13_Witness ==
    \E p \in Procs : \E q \in Procs :
        /\ OnlyWriter(p)
        /\ OnlyWriter(q)
        /\ call[p].path # call[q].path
        /\ call[p].offset > 0
\* ---------------------------------------------------------------------- C14
\* the largest end of the non-empty writes applied to buffer h: those that
\* have returned, and the one between its resize and its copy, if any
AppliedEnd(h) ==
    LET q == fileWriter[h] IN
    IF q # NoProc /\ pc[q] = "w_copy"
    THEN Max(highWater[h], call[q].offset + Len(call[q].data))
    ELSE highWater[h]

HoldsMap(p) == p \in mapReaders \/ mapWriter = p
HeldFiles(p) == {h \in 1..Len(heap) : p \in fileReaders[h] \/ fileWriter[h] = p}
WaitsForMap(p) == pc[p] \in {"t_maplock", "w_maplock", "r_maplock"}
WaitsForFile(p) == pc[p] \in {"w_filelock", "r_filelock"}

\* C15: no call holds the map lock while it holds or waits for a buffer
\* lock, none holds a buffer lock while it holds or waits for the map lock,
\* and a call holds at most one lock at a time (none once it has returned).
C15_LockDiscipline ==
    \A p \in Procs :
        /\ ~(HoldsMap(p) /\ (HeldFiles(p) # {} \/ WaitsForFile(p)))
        /\ ~(HeldFiles(p) # {} /\ (HoldsMap(p) \/ WaitsForMap(p)))
        /\ Cardinality(HeldFiles(p)) <= 1
        /\ ~(p \in mapReaders /\ mapWriter = p)
        /\ pc[p] \in {"idle", "done"} => ~HoldsMap(p) /\ HeldFiles(p) = {}

\* one call waits for a buffer lock that another holds while a third party,
\* or nobody, has the map lock
C15_Witness ==
    \E p \in Procs : \E q \in Procs \ {p} :
        /\ pc[p] = "w_filelock"
        /\ handle[p] \in HeldFiles(q)
        /\ ~HoldsMap(p)
        /\ ~HoldsMap(q)
\* ---------------------------------------------------------------------- C16
\* The steps of a call after its invocation.  The tokio runtime polls every
\* woken task and a lock wakes its waiters when it is released, so a step that
\* stays possible is taken.
Step(p) ==
    \/ LockMapWrite(p)
    \/ TouchEntry(p)
    \/ WriteEntry(p)
    \/ LockFileWrite(p)
    \/ WriteResizeStep(p)
    \/ WriteCopyStep(p)
    \/ LockMapRead(p)
    \/ ReadGet(p)
    \/ LockFileRead(p)
    \/ ReadStep(p)

\* Which lock a call takes, and whether it is granted, depends on the kind of
\* the call, its path, the outcome of its checks and whether its data is
\* empty, not on the bytes: the calls of the fair specification keep one
\* value of each argument per case.
LiveCalls ==
    {c \in Calls : c.offset \in {0, UsizeMax} /\ c.len <= 1 /\ Len(c.data) <= 1}

InvokeLive(p) == Invoke(p) /\ call'[p] \in LiveCalls

NextLive == \E p \in Procs : InvokeLive(p) \/ Return(p) \/ Step(p)

FairSpec == Init /\ [][NextLive]_vars /\ \A p \in Procs : WF_vars(Step(p))

Running(p) == pc[p] \notin {"idle", "done"}

\* the call waits for a lock that cannot be granted now
Blocked(p) ==
    \/ pc[p] \in {"t_maplock", "w_maplock"} /\ ~CanLockMapWrite
    \/ pc[p] = "r_maplock" /\ ~CanLockMapRead
    \/ pc[p] = "w_filelock" /\ ~CanLockFileWrite(handle[p])
    \/ pc[p] = "r_filelock" /\ ~CanLockFileRead(handle[p])

NoDeadlock ==
    (\E p \in Procs : Running(p)) => \E p \in Procs : Running(p) /\ ~Blocked(p)

ResultKinds == {"Ok", "InvalidPath", "WriteError", "ReadError", "FileNotFound"}

BlockedBy(q, p) ==
    \/ pc[q] \in {"t_maplock", "w_maplock"} /\ HoldsMap(p)
    \/ pc[q] = "r_maplock" /\ mapWriter = p
    \/ pc[q] = "w_filelock" /\ handle[q] \in HeldFiles(p)
    \/ pc[q] = "r_filelock" /\ fileWriter[handle[q]] = p

\* C17: while a call holds the buffer lock of its path, a call on another
\* path is not, and cannot become, blocked by it: the holder has no map lock,
\* and neither the buffer bound to the other path nor the one the other call
\* has looked up is the one that is locked.
C17_OtherPathsNotBlocked ==
    \A p \in Procs : \A q \in Procs \ {p} :
        (HeldFiles(p) # {} /\ call[q].op # "none" /\ call[q].path # call[p].path)
        => /\ ~HoldsMap(p)
           /\ files[call[q].path] \notin HeldFiles(p)
           /\ handle[q] \notin HeldFiles(p)
           /\ ~BlockedBy(q, p)

\* two calls on different paths are inside their buffers at the same time
C17_Witness ==
    \E p \in Procs : \E q \in Procs \ {p} :
        /\ pc[p] = "w_copy"
        /\ pc[q] \in {"w_resize", "w_copy", "r_read"}
        /\ call[q].path # call[p].path
\* ---------------------------------------------------------------------- C18
MapLockStep(p) == HoldsMap(p)' /\ ~HoldsMap(p)

\* C18: the map lock is taken exclusively only to insert a new entry: a call
\* whose path already has an entry takes it in shared mode.
C18_ExclusiveOnlyToInsert ==
    [][\A p \in Procs :
          (MapLockStep(p) /\ files[call[p].path] # NoFile)
          => /\ p \in mapReaders'
             /\ mapWriter' # p]_vars

\* C18 as the code has it: read takes the map lock in shared mode only, so
\* lookups of reads do not block each other; touch and write take it
\* exclusively whether or not their path has an entry.
C18_MapLockModes ==
    [][\A p \in Procs :
          /\ MapLockStep(p)
                => IF call[p].op = "read"
                   THEN /\ p \in mapReaders'
                        /\ mapWriter' = NoProc
                        /\ mapReaders \subseteq mapReaders'
                   ELSE /\ call[p].op \in {"touch", "write"}
                        /\ mapWriter' = p
                        /\ mapReaders' = {}
          /\ (HoldsMap(p) /\ pc'[p] # pc[p]) => ~HoldsMap(p)']_vars

\* a write holds the map lock exclusively for a path that has an entry, and
\* a read waits for it
C18_Witness ==
    \E p \in Procs : \E q \in Procs :
        /\ call[p].op = "write"
        /\ mapWriter = p
        /\ files[call[p].path] # NoFile
        /\ pc[q] = "r_maplock"
        /\ call[q].path = call[p].path
\* ---------------------------------------------------------------------- C19
InsideWrite(p, h) == pc[p] \in {"w_resize", "w_copy"} /\ handle[p] = h
InsideRead(p, h) == pc[p] = "r_read" /\ handle[p] = h

WriterExcludesOthers ==
    \A p \in Procs : \A q \in Procs \ {p} :
        pc[p] \in {"w_resize", "w_copy"}
        => ~InsideWrite(q, handle[p]) /\ ~InsideRead(q, handle[p])

\* C19: while a call is inside File::write on a buffer no other call is
\* inside File::read or File::write on it; reads may overlap, and a read
\* returns the bytes it returns alone on the buffer as it was when the read
\* got the lock, which is the buffer it still finds.
C19_ReadersWriterExclusion ==
    [][/\ WriterExcludesOthers'
       /\ \A p \in Procs :
             ReadReturnStep(p)
             => /\ heap[handle[p]] = before[p]
                /\ result'[p] = Ok(FileRead(before[p], call[p].offset, call[p].len))]_vars

\* two reads are inside File::read on the same non-empty buffer
C19_Witness ==
    \E p \in Procs : \E q \in Procs \ {p} :
        /\ pc[p] = "r_read"
        /\ InsideRead(q, handle[p])
        /\ heap[handle[p]] # <<>>
\* ---------------------------------------------------------------------- C20
\* C20: a path that has an entry keeps the very same buffer; a path gains an
\* entry only in the entry step of a touch or write of that path, a call
\* that then returns Ok; a buffer changes only under a write of the path it
\* is bound to; and the handle a call cloned out of the map is the buffer
\* bound to its path for as long as the call runs.
C20_MapOnlyGrows ==
    [][/\ \A path \in Paths :
             /\ files[path] # NoFile => files'[path] = files[path]
             /\ (files[path] = NoFile /\ files'[path] # NoFile)
                => \E p \in Procs :
                      /\ pc[p] \in {"t_entry", "w_entry"}
                      /\ call[p].path = path
                      /\ pc'[p] # pc[p]
                      /\ created'[p]
       /\ Len(heap') >= Len(heap)
       /\ \A h \in 1..Len(heap) :
             heap'[h] # heap[h]
             => \E p \in Procs : InsideWrite(p, h) /\ files[call[p].path] = h
       /\ \A p \in Procs :
             /\ handle'[p] # NoFile => handle'[p] = files'[call'[p].path]
             /\ (created'[p] /\ pc'[p] = "done") => result'[p].kind = "Ok"]_vars

\* a write created the entry and holds its handle with the map lock released,
\* while a touch of the same path has run to completion in between
C20_Witness ==
    \E p \in Procs : \E q \in Procs \ {p} :
        /\ pc[p] = "w_filelock"
        /\ created[p]
        /\ Finished(q, "touch", "Ok")
        /\ ~created[q]
        /\ call[q].path = call[p].path
        /\ handle[p] = files[call[p].path]
====
